---- MODULE Spec2Model ----
(***************************************************************************)
(* Model of the LiteX-CNC etherbone driver, litexcnc_eth.c / litexcnc_eth.h *)
(*                                                                         *)
(* A uint32_t is a 4-tuple of bytes, most significant byte first (its      *)
(* VALUE).  A buffer is a sequence of bytes in memory order.  The host's   *)
(* byte order is the variable hostLE, so htobe32 / be32toh and memcpy of a *)
(* uint32_t object are modelled by what they do on either kind of host.    *)
(***************************************************************************)
EXTENDS Integers, Sequences, FiniteSets, TLC

VARIABLES
    hostLE,        \* TRUE on a little-endian host
    pc,            \* position of the driver
    wire,          \* transport operations of the current driver call, in order
    exchanges,     \* register exchanges of the current driver call, with their content
    ret,           \* status returned by the last driver call
    log,           \* message printed by the last driver call ("" = none)
    i,             \* litexcnc_eth_reset: size_t i
    reset_flag,    \* litexcnc_eth_reset: uint32_t reset_flag
    reset_status,  \* litexcnc_eth_reset: uint32_t reset_status
    buffer,        \* litexcnc_eth_reset / verify_config: the kmalloc'ed buffer
    devK,          \* fake device: mismatching read-backs per phase <<set, clear>>
    devReads,      \* fake device: read-backs answered in the current phase
    devConfirmed,  \* phases in which the device itself returned the flag
    rxFailed,      \* phases in which a read-back exchange failed
    attempts,      \* write/read-back cycles completed per phase <<set, clear>>
    version,       \* fpga.version
    fingerprint,   \* fpga.fingerprint
    devHeader,     \* fake device: the 12 bytes of its init region
    regionSize,    \* LITEXCNC_HEADER_DATA_READ_SIZE, _RESET_HEADER_SIZE, _CONFIG_HEADER_SIZE
    write_buffer_size,   \* fpga.write_buffer_size
    read_buffer_size,    \* fpga.read_buffer_size
    write_buffer,        \* fpga.write_buffer
    read_request_buffer, \* board->read_request_buffer
    txRet,         \* litexcnc_eth_read / write: static int r
    rxCount,       \* litexcnc_eth_read: int count
    lastCall,      \* the cyclic function called last ("" = none yet)
    cycles,        \* cyclic calls made so far
    fpga_read_buffer,    \* fpga.read_buffer
    config_size,   \* litexcnc_eth_write_config: size_t size
    config_file,   \* config_file[]: one entry per configured board, its JSON's shape
    hal,           \* the HAL component: "none", "init", "ready" or "exited"
    boards,        \* boards[]: "NULL" or "allocated"
    connection,    \* board->connection of each slot
    netOps,        \* transport operations performed on each slot's board, in order
    statuses,      \* what init_board returned, board by board
    close_calls    \* close_board calls: the slot, and what it held at the call

resetVars  == <<i, reset_flag, reset_status, buffer, devK, devReads, devConfirmed, rxFailed, attempts>>
verifyVars == <<version, fingerprint, devHeader>>
boardVars  == <<regionSize, write_buffer_size, read_buffer_size, write_buffer, read_request_buffer,
               txRet, rxCount, lastCall, cycles, fpga_read_buffer>>
configVars == <<config_size>>
mainVars   == <<config_file, hal, boards, connection, netOps, statuses, close_calls>>
vars == <<hostLE, pc, wire, exchanges, ret, log, resetVars, verifyVars, boardVars,
          configVars, mainVars>>

----------------------------------------------------------------------------
(* Bounds of the model *)

\* the fake device mismatches at most MaxK read-backs per phase
MaxK == 6

\* number of cyclic read / write calls explored
MaxCycles == 3

----------------------------------------------------------------------------
(* Program constants *)

MAX_RESET_RETRIES == 5

MAX_ETH_BOARDS == 4

\* board->fpga.write_header_size = 16
WRITE_HEADER_SIZE == 16

\* the 16 that init_board subtracts from both buffer sizes
ETHERBONE_HEADER_SIZE == 16

\* 0x18052022
MAGIC == <<24, 5, 32, 34>>

----------------------------------------------------------------------------
(* 32-bit words and bytes *)

\* the uint32_t of a natural number below 2^31
U32(n) ==
    <<(n \div 16777216) % 256, (n \div 65536) % 256, (n \div 256) % 256, n % 256>>

\* unsigned addition modulo 2^32
Add32(a, b) ==
    LET s4 == a[4] + b[4]
        s3 == a[3] + b[3] + (s4 \div 256)
        s2 == a[2] + b[2] + (s3 \div 256)
        s1 == a[1] + b[1] + (s2 \div 256)
    IN  <<s1 % 256, s2 % 256, s3 % 256, s4 % 256>>

\* TRUE iff a + b does not fit in 32 bits
Carry32(a, b) ==
    LET s4 == a[4] + b[4]
        s3 == a[3] + b[3] + (s4 \div 256)
        s2 == a[2] + b[2] + (s3 \div 256)
        s1 == a[1] + b[1] + (s2 \div 256)
    IN  s1 > 255

\* unsigned subtraction modulo 2^32: a + ~b + 1
Sub32(a, b) ==
    Add32(Add32(a, <<255 - b[1], 255 - b[2], 255 - b[3], 255 - b[4]>>), <<0, 0, 0, 1>>)

\* a < b as unsigned 32-bit values
Lt32(a, b) ==
    \E k \in 1..4 : a[k] < b[k] /\ \A j \in 1..(k - 1) : a[j] = b[j]

bswap32(w) == <<w[4], w[3], w[2], w[1]>>

\* <endian.h>: host to big-endian
htobe32(w) == IF hostLE THEN bswap32(w) ELSE w

\* <endian.h>: big-endian to host
be32toh(w) == IF hostLE THEN bswap32(w) ELSE w

\* memcpy(bytes, &w, 4): the object representation of a uint32_t
Store32(w) == IF hostLE THEN <<w[4], w[3], w[2], w[1]>> ELSE w

\* memcpy(&w, bytes, 4)
Load32(b) == IF hostLE THEN <<b[4], b[3], b[2], b[1]>> ELSE <<b[1], b[2], b[3], b[4]>>

\* the 4 bytes of s that start at offset off (0-based), in memory order
Bytes4(s, off) == <<s[off + 1], s[off + 2], s[off + 3], s[off + 4]>>

\* the value those 4 bytes encode big-endian: the first byte is the most significant
DecodeBE(s, off) == <<s[off + 1], s[off + 2], s[off + 3], s[off + 4]>>

----------------------------------------------------------------------------
(* Address layout: the LITEXCNC_ETH_*_BASE_ADDRESS macros *)

LITEXCNC_ETH_INIT_DATA_BASE_ADDRESS == U32(0)

LITEXCNC_ETH_RESET_DATA_BASE_ADDRESS ==
    Add32(LITEXCNC_ETH_INIT_DATA_BASE_ADDRESS, regionSize.hdr)

LITEXCNC_ETH_CONFIG_DATA_BASE_ADDRESS ==
    Add32(LITEXCNC_ETH_RESET_DATA_BASE_ADDRESS, regionSize.rst)

LITEXCNC_ETH_WRITE_DATA_BASE_ADDRESS ==
    Add32(LITEXCNC_ETH_CONFIG_DATA_BASE_ADDRESS, regionSize.cfg)

\* variant: the two sizes are exchanged
LITEXCNC_ETH_READ_DATA_BASE_ADDRESS_swapped ==
    Sub32(Add32(LITEXCNC_ETH_WRITE_DATA_BASE_ADDRESS, U32(WRITE_HEADER_SIZE)),
          U32(write_buffer_size))

LITEXCNC_ETH_READ_DATA_BASE_ADDRESS ==
    Sub32(Add32(LITEXCNC_ETH_WRITE_DATA_BASE_ADDRESS, U32(write_buffer_size)),
          U32(WRITE_HEADER_SIZE))

\* the region sizes of the firmware the driver is built for: 3 words, 1 word, 1 word
DefaultRegionSize == [hdr |-> U32(12), rst |-> U32(4), cfg |-> U32(4)]

----------------------------------------------------------------------------
(* Transport: etherbone.c.  A write is one request sent; a read is one      *)
(* request sent and one response received.  Either may fail, and a failed  *)
(* read has stored nothing in the caller's buffer.                          *)

\* outcomes of eb_write8
EbWrite8Outcomes == {"ok", "send_fail"}

\* outcomes of eb_read8
EbRead8Outcomes == {"ok", "send_fail", "recv_fail"}

\* transport operations of one eb_write8
eb_write8_ops(outcome) == <<"send">>

\* transport operations of one eb_read8
eb_read8_ops(outcome) ==
    IF outcome = "send_fail" THEN <<"send">> ELSE <<"send", "recv">>

\* the caller's buffer after eb_read8
eb_read8_data(outcome, old, answer) == IF outcome = "ok" THEN answer ELSE old

\* the status eb_read8 returns
eb_read8_ret(outcome) == IF outcome = "ok" THEN 0 ELSE -1

----------------------------------------------------------------------------
(* litexcnc_eth_reset *)

PhaseIx(ph) == IF ph = "set" THEN 1 ELSE 2

\* the value of the flag each phase writes
FlagValue(ph) == IF ph = "set" THEN U32(1) ELSE U32(0)

\* what the fake device answers to a read-back that it answers at all: a value
\* other than the flag for the first devK read-backs of the phase, the flag
\* (big-endian on the wire) from then on
DevAnswers(ph) ==
    IF devReads < devK[PhaseIx(ph)]
    THEN {<<0, 0, 0, 0>>, <<0, 0, 0, 1>>, <<1, 0, 0, 0>>} \ {FlagValue(ph)}
    ELSE {FlagValue(ph)}

\* variant: the budget is one attempt short
retries_exhausted_ge(n) == n >= MAX_RESET_RETRIES

\* variant: the budget is one attempt too long
retries_exhausted_late(n) == n > MAX_RESET_RETRIES + 1

\* "if (i > MAX_RESET_RETRIES)"
retries_exhausted(n) == n > MAX_RESET_RETRIES

\* variant: the counter of the set phase is carried over
clear_phase_first_i_kept(n) == n

\* "i = 1;" before the second loop, n being the counter the first loop left
clear_phase_first_i(n) == 1

\* the message each phase prints when its retries are exhausted
set_phase_message == "Reset of the card failed after 5 times"
clear_phase_message == "FPGA did not respond after reset for 5 times"

\* "return -1;" of the first loop
set_phase_failure == -1

\* variant: the second loop returns a status of its own
clear_phase_failure_alt == set_phase_failure - 1

\* "return -1;" of the second loop
clear_phase_failure == -1

\* entry: the locals before the first loop
reset_enter ==
    /\ pc = "reset"
    /\ i' = 1
    /\ reset_flag' = htobe32(U32(1))
    /\ reset_status' = htobe32(U32(0))
    /\ \E garbage \in {<<0, 0, 0, 0>>, <<0, 0, 0, 1>>} : buffer' = garbage
    /\ wire' = <<>>
    /\ exchanges' = <<>>
    /\ pc' = "set_loop"
    /\ UNCHANGED <<mainVars, configVars, hostLE, ret, log, devK, devReads, devConfirmed, rxFailed, attempts,
                   verifyVars, boardVars>>

\* the loop condition and the retry check of one phase
phase_check(ph, here, body, after, message, failure) ==
    /\ pc = here
    /\ IF reset_flag # reset_status
       THEN IF retries_exhausted(i)
            THEN /\ log' = message
                 /\ ret' = failure
                 /\ pc' = "done"
            ELSE /\ pc' = body
                 /\ UNCHANGED <<log, ret>>
       ELSE /\ pc' = after
            /\ UNCHANGED <<log, ret>>
    /\ UNCHANGED <<mainVars, configVars, exchanges, hostLE, wire, resetVars, verifyVars, boardVars>>

\* variant: the flag is stored in the buffer but never written to the device
phase_write_skipped(ph, here, next) ==
    /\ pc = here
    /\ buffer' = Store32(reset_flag)
    /\ pc' = next
    /\ UNCHANGED <<mainVars, configVars, exchanges, hostLE, wire, ret, log, i, reset_flag,
                   reset_status, devK, devReads, devConfirmed, rxFailed, attempts,
                   verifyVars, boardVars>>

\* memcpy(buffer, &reset_flag); eb_write8(...); usecSleep(10)
phase_write(ph, here, next) ==
    /\ pc = here
    /\ buffer' = Store32(reset_flag)
    /\ \E outcome \in EbWrite8Outcomes : wire' = wire \o eb_write8_ops(outcome)
    /\ exchanges' = Append(exchanges, [op |-> "write", data |-> buffer'])
    /\ pc' = next
    /\ UNCHANGED <<mainVars, configVars, hostLE, ret, log, i, reset_flag, reset_status, devK, devReads,
                   devConfirmed, rxFailed, attempts, verifyVars, boardVars>>

\* eb_read8(...); memcpy(&reset_status, buffer); i++
phase_read(ph, here, next) ==
    /\ pc = here
    /\ \E outcome \in EbRead8Outcomes, answer \in DevAnswers(ph) :
         /\ buffer' = eb_read8_data(outcome, buffer, answer)
         /\ wire' = wire \o eb_read8_ops(outcome)
         /\ devReads' = IF outcome = "ok" THEN devReads + 1 ELSE devReads
         /\ devConfirmed' = IF outcome = "ok" /\ answer = FlagValue(ph)
                            THEN devConfirmed \cup {ph} ELSE devConfirmed
         /\ rxFailed' = IF outcome = "ok" THEN rxFailed ELSE rxFailed \cup {ph}
    /\ reset_status' = Load32(buffer')
    /\ i' = i + 1
    /\ attempts' = [attempts EXCEPT ![PhaseIx(ph)] = @ + 1]
    /\ exchanges' = Append(exchanges, [op |-> "read", data |-> buffer'])
    /\ pc' = next
    /\ UNCHANGED <<mainVars, configVars, hostLE, ret, log, reset_flag, devK, verifyVars, boardVars>>

reset_set_check ==
    phase_check("set", "set_loop", "set_write", "clear_init", set_phase_message, set_phase_failure)

reset_set_write == phase_write("set", "set_write", "set_read")

reset_set_read == phase_read("set", "set_read", "set_loop")

\* "i = 1; reset_flag = htobe32(0);"
reset_clear_init ==
    /\ pc = "clear_init"
    /\ i' = clear_phase_first_i(i)
    /\ reset_flag' = htobe32(U32(0))
    /\ devReads' = 0
    /\ pc' = "clear_loop"
    /\ UNCHANGED <<mainVars, configVars, exchanges, hostLE, wire, ret, log, reset_status, buffer, devK, devConfirmed,
                   rxFailed, attempts, verifyVars, boardVars>>

reset_clear_check ==
    phase_check("clear", "clear_loop", "clear_write", "reset_ok", clear_phase_message, clear_phase_failure)

reset_clear_write == phase_write("clear", "clear_write", "clear_read")

reset_clear_read == phase_read("clear", "clear_read", "clear_loop")

\* "return 0;"
reset_return ==
    /\ pc = "reset_ok"
    /\ ret' = 0
    /\ pc' = "done"
    /\ UNCHANGED <<mainVars, configVars, exchanges, hostLE, wire, log, resetVars, verifyVars, boardVars>>

\* what a call hands back besides its int status: the function has no out
\* parameter and stores nothing in the fpga structure
reset_reported_counts == <<>>

litexcnc_eth_reset ==
    \/ reset_enter
    \/ reset_set_check
    \/ reset_set_write
    \/ reset_set_read
    \/ reset_clear_init
    \/ reset_clear_check
    \/ reset_clear_write
    \/ reset_clear_read
    \/ reset_return

\* values of the variables a specification does not use
IdleReset ==
    /\ i = 0
    /\ reset_flag = U32(0)
    /\ reset_status = U32(0)
    /\ buffer = <<>>
    /\ devK = <<0, 0>>
    /\ devReads = 0
    /\ devConfirmed = {}
    /\ rxFailed = {}
    /\ attempts = <<0, 0>>

IdleVerify ==
    /\ version = U32(0)
    /\ fingerprint = U32(0)
    /\ devHeader = <<>>

IdleBoard ==
    /\ regionSize = DefaultRegionSize
    /\ write_buffer_size = 0
    /\ read_buffer_size = 0
    /\ write_buffer = <<>>
    /\ read_request_buffer = <<>>
    /\ txRet = 0
    /\ rxCount = 0
    /\ lastCall = ""
    /\ cycles = 0
    /\ fpga_read_buffer = <<>>

IdleConfig ==
    /\ config_size = 0

IdleMain ==
    /\ config_file = <<>>
    /\ hal = "none"
    /\ boards = <<>>
    /\ connection = <<>>
    /\ netOps = <<>>
    /\ statuses = <<>>
    /\ close_calls = <<>>

\* litexcnc_eth_reset called once, against each fake device
InitReset ==
    /\ hostLE \in BOOLEAN
    /\ pc = "reset"
    /\ wire = <<>>
    /\ ret = 0
    /\ log = ""
    /\ i = 0
    /\ reset_flag = U32(0)
    /\ reset_status = U32(0)
    /\ buffer = <<>>
    /\ devK \in (0..MaxK) \X (0..MaxK)
    /\ devReads = 0
    /\ devConfirmed = {}
    /\ rxFailed = {}
    /\ attempts = <<0, 0>>
    /\ exchanges = <<>>
    /\ IdleVerify
    /\ IdleBoard
    /\ IdleConfig
    /\ IdleMain

SpecReset == InitReset /\ [][litexcnc_eth_reset]_vars

\* the same call on a thread that keeps running until the function returns
SpecResetFair == SpecReset /\ WF_vars(litexcnc_eth_reset)

----------------------------------------------------------------------------
(* litexcnc_eth_verify_config *)

\* memcpy(&header, read_buffer, sizeof header): three uint32_t members
header_of(buf) ==
    [magic       |-> Load32(Bytes4(buf, 0)),
     version     |-> Load32(Bytes4(buf, 4)),
     fingerprint |-> Load32(Bytes4(buf, 8))]

\* variant: the magic is compared in host order
magic_ok_unswapped(header) == header.magic = MAGIC

\* "be32toh(header.magic) != 0x18052022", negated
magic_ok(header) == be32toh(header.magic) = MAGIC

\* the whole function: one eb_read8 of the init region, then the checks
litexcnc_eth_verify_config ==
    /\ pc = "verify"
    /\ \E outcome \in EbRead8Outcomes :
         LET read_buffer == eb_read8_data(outcome, <<>>, devHeader)
             r == eb_read8_ret(outcome)
         IN  /\ wire' = eb_read8_ops(outcome)
             /\ buffer' = read_buffer
             /\ rxFailed' = IF outcome = "ok" THEN {} ELSE {"verify"}
             /\ IF r < 0
                THEN /\ log' = "Cannot read from FPGA"
                     /\ ret' = r
                     /\ UNCHANGED <<version, fingerprint>>
                ELSE IF ~magic_ok(header_of(read_buffer))
                THEN /\ log' = "Invalid magic received"
                     /\ ret' = -1
                     /\ UNCHANGED <<version, fingerprint>>
                ELSE /\ version' = be32toh(header_of(read_buffer).version)
                     /\ fingerprint' = be32toh(header_of(read_buffer).fingerprint)
                     /\ ret' = 0
                     /\ UNCHANGED log
    /\ pc' = "done"
    /\ UNCHANGED <<mainVars, configVars, exchanges, hostLE, i, reset_flag, reset_status,
                   devK, devReads, devConfirmed, attempts, devHeader, boardVars>>

\* first words a device may answer: the magic, the magic byte-swapped, others
DevMagics == {MAGIC, bswap32(MAGIC), <<24, 5, 32, 35>>, <<0, 0, 0, 0>>}

\* version words: 2, and 2 byte-swapped
DevVersions == {<<0, 0, 0, 2>>, <<2, 0, 0, 0>>}

\* fingerprint words: 0xABCD1234, the same byte-swapped, 0
DevFingerprints == {<<171, 205, 18, 52>>, <<52, 18, 205, 171>>, <<0, 0, 0, 0>>}

\* litexcnc_eth_verify_config called once, against each fake device
InitVerify ==
    /\ hostLE \in BOOLEAN
    /\ pc = "verify"
    /\ wire = <<>>
    /\ ret = 0
    /\ log = ""
    /\ exchanges = <<>>
    /\ IdleConfig
    /\ IdleMain
    /\ IdleReset
    /\ version = <<255, 255, 255, 255>>
    /\ fingerprint = <<255, 255, 255, 255>>
    /\ \E m \in DevMagics, v \in DevVersions, f \in DevFingerprints :
         devHeader = m \o v \o f
    /\ IdleBoard

SpecVerify == InitVerify /\ [][litexcnc_eth_verify_config]_vars

----------------------------------------------------------------------------
(* init_board: the write buffer's header and the read-request buffer *)

\* etherbone.c: the 16-byte frame header template (magic 0x4e6f, version,
\* sizes; write count at offset 10, read count at offset 11, address at 12)
etherbone_header == <<78, 111, 16, 68, 0, 0, 0, 0, 0, 15, 0, 0, 0, 0, 0, 0>>

\* s with the bytes of t stored at offset off (0-based): memcpy(&s[off], t, Len(t))
Poke(s, off, t) ==
    [k \in 1..Len(s) |-> IF k > off /\ k <= off + Len(t) THEN t[k - off] ELSE s[k]]

\* a value stored in a uint8_t
U8(n) == n % 256

\* "(size - 16) >> 2": the word count of a buffer
word_count(size) == (size - ETHERBONE_HEADER_SIZE) \div 4

\* variant: the address is stored in host order
write_address_bytes_host_order == Store32(LITEXCNC_ETH_WRITE_DATA_BASE_ADDRESS)

\* "htobe32(LITEXCNC_ETH_WRITE_DATA_BASE_ADDRESS(board->fpga))" as stored by memcpy
write_address_bytes == Store32(htobe32(LITEXCNC_ETH_WRITE_DATA_BASE_ADDRESS))

\* variant: the index is not scaled to bytes
read_address_unscaled(n) == htobe32(Add32(LITEXCNC_ETH_READ_DATA_BASE_ADDRESS, U32(n)))

\* "addresses[i] = htobe32(LITEXCNC_ETH_READ_DATA_BASE_ADDRESS(board->fpga) + (i << 2))"
read_address(n) == htobe32(Add32(LITEXCNC_ETH_READ_DATA_BASE_ADDRESS, U32(n * 4)))

\* memcpy(&read_request_buffer[16], addresses, words * 4): the object
\* representation of uint32_t addresses[words]
address_bytes(words) ==
    [k \in 1..(4 * words) |-> Store32(read_address((k - 1) \div 4))[((k - 1) % 4) + 1]]

\* lines 384-391: the header of fpga.write_buffer
build_write_buffer(old) ==
    LET copied  == Poke(old, 0, etherbone_header)
        counted == [copied EXCEPT ![11] = U8(word_count(write_buffer_size))]
    IN  Poke(counted, 12, write_address_bytes)

\* lines 393-405: the kmalloc'ed read-request buffer, uninitialised bytes being g
build_read_request_buffer(g) ==
    LET fresh   == [k \in 1..read_buffer_size |-> g]
        copied  == Poke(fresh, 0, etherbone_header)
        words   == word_count(read_buffer_size)
        counted == [copied EXCEPT ![12] = U8(words)]
    IN  Poke(counted, 16, address_bytes(words))

\* the tail of init_board, after litexcnc_register has succeeded
init_board_buffers ==
    /\ pc = "registered"
    /\ write_buffer' = build_write_buffer(write_buffer)
    /\ \E g \in {0, 170} : read_request_buffer' = build_read_request_buffer(g)
    /\ ret' = 0
    /\ pc' = "ready"
    /\ UNCHANGED <<mainVars, configVars, exchanges, hostLE, wire, log, resetVars, verifyVars, regionSize,
                   write_buffer_size, read_buffer_size, txRet, rxCount, lastCall, cycles,
                   fpga_read_buffer>>

----------------------------------------------------------------------------
(* The cyclic functions *)

\* variant: only a short response is refused
count_differs_signed(count, size) == count < size

\* "count != this->read_buffer_size": int against size_t.  The int is converted
\* to size_t, so a negative count becomes a value above every buffer size.
count_differs(count, size) == count < 0 \/ count # size

\* what eb_send may return for len bytes: an error or the number sent
EbSendResults(len) == {-1, len}

\* what eb_recv may return when len bytes are expected
EbRecvResults(len) == {-1, 0, len - 1, len, len + 1}

\* variant: the send is not preceded by the wait
cyclic_prelude_none == <<>>

\* eb_wait_for_tx_buffer_empty(board->connection) before the eb_send
cyclic_prelude == <<"wait">>

\* variant: the response is awaited even when the request could not be sent
ops_after_send_always(r) == <<"recv">>

\* "if (r < 0) { ... return -1; }" before the eb_recv
ops_after_send(r) == IF r < 0 THEN <<>> ELSE <<"recv">>

\* variant: the response is received into the request buffer
recv_target_request == "read_request_buffer"

\* eb_recv(board->connection, this->read_buffer, this->read_buffer_size)
recv_target == "read_buffer"

\* a buffer after eb_recv stored count bytes of a response in it
received(old, count, len) ==
    [k \in 1..len |-> IF k <= count THEN 85 ELSE IF k <= Len(old) THEN old[k] ELSE 0]

litexcnc_eth_read ==
    /\ pc = "ready"
    /\ cycles < MaxCycles
    /\ \E r \in EbSendResults(read_buffer_size), count \in EbRecvResults(read_buffer_size) :
         /\ txRet' = r
         /\ wire' = cyclic_prelude \o <<"send">> \o ops_after_send(r)
         /\ IF r < 0
            THEN /\ log' = "Could not write addresses to read to device"
                 /\ ret' = -1
                 /\ UNCHANGED rxCount
            ELSE /\ rxCount' = count
                 /\ IF count_differs(count, read_buffer_size)
                    THEN log' = "Unexpected read length" /\ ret' = -1
                    ELSE log' = "" /\ ret' = 0
         /\ IF ops_after_send(r) = <<>>
            THEN UNCHANGED <<fpga_read_buffer, read_request_buffer>>
            ELSE IF recv_target = "read_buffer"
            THEN /\ fpga_read_buffer' = received(fpga_read_buffer, count, read_buffer_size)
                 /\ UNCHANGED read_request_buffer
            ELSE /\ read_request_buffer' = received(read_request_buffer, count, read_buffer_size)
                 /\ UNCHANGED fpga_read_buffer
    /\ lastCall' = "read"
    /\ cycles' = cycles + 1
    /\ UNCHANGED <<mainVars, configVars, exchanges, hostLE, pc, resetVars, verifyVars,
                   regionSize, write_buffer_size, read_buffer_size, write_buffer>>

litexcnc_eth_write ==
    /\ pc = "ready"
    /\ cycles < MaxCycles
    /\ \E r \in EbSendResults(write_buffer_size) :
         /\ txRet' = r
         /\ wire' = cyclic_prelude \o <<"send">>
         /\ IF r < 0
            THEN log' = "Could not write data to device" /\ ret' = -1
            ELSE log' = "" /\ ret' = r
    /\ lastCall' = "write"
    /\ cycles' = cycles + 1
    /\ UNCHANGED <<mainVars, configVars, exchanges, hostLE, pc, resetVars, verifyVars, regionSize, write_buffer_size,
                   read_buffer_size, write_buffer, read_request_buffer, rxCount,
                   fpga_read_buffer>>

\* the caller overwrites the payload of the write buffer before a cycle
caller_sets_payload ==
    /\ pc = "ready"
    /\ cycles < MaxCycles
    /\ \E v \in {0, 7} :
         write_buffer' = [k \in 1..Len(write_buffer) |->
                            IF k > WRITE_HEADER_SIZE THEN v ELSE write_buffer[k]]
    /\ write_buffer' # write_buffer
    /\ UNCHANGED <<mainVars, configVars, exchanges, hostLE, pc, wire, ret, log, resetVars, verifyVars, regionSize,
                   write_buffer_size, read_buffer_size, read_request_buffer,
                   txRet, rxCount, lastCall, cycles, fpga_read_buffer>>

\* sizes litexcnc_register may have set: fpga.write_buffer_size
WriteBufferSizes == {16, 18, 20, 28, 1040}

\* fpga.read_buffer_size
ReadBufferSizes == {16, 20, 24, 26, 1044}

\* region sizes explored: those of the firmware, a config region that puts the
\* write base at 0x100, and a header region that makes the addresses wrap
RegionSizes ==
    [hdr : {U32(12), <<255, 255, 255, 240>>}, rst : {U32(4)}, cfg : {U32(4), U32(240)}]

\* a board that litexcnc_register has just accepted, then driven cyclically
InitBoard ==
    /\ hostLE \in BOOLEAN
    /\ pc = "registered"
    /\ wire = <<>>
    /\ ret = 0
    /\ log = ""
    /\ exchanges = <<>>
    /\ IdleConfig
    /\ IdleMain
    /\ IdleReset
    /\ IdleVerify
    /\ regionSize \in RegionSizes
    /\ write_buffer_size \in WriteBufferSizes
    /\ read_buffer_size \in ReadBufferSizes
    /\ write_buffer = [k \in 1..write_buffer_size |-> 0]
    /\ read_request_buffer = <<>>
    /\ txRet = 0
    /\ rxCount = 0
    /\ lastCall = ""
    /\ cycles = 0
    /\ fpga_read_buffer = [k \in 1..read_buffer_size |-> 0]

NextBoard ==
    \/ init_board_buffers
    \/ litexcnc_eth_read
    \/ litexcnc_eth_write
    \/ caller_sets_payload

SpecBoard == InitBoard /\ [][NextBoard]_vars

----------------------------------------------------------------------------
(* litexcnc_eth_write_config *)

\* the length handed to eb_write8: LITEXCNC_CONFIG_HEADER_SIZE, whatever size is
write_config_length(n) == regionSize.cfg

\* the whole function: one eb_write8 whose status is dropped, then "return 0;"
litexcnc_eth_write_config ==
    /\ pc = "write_config"
    /\ \E outcome \in EbWrite8Outcomes :
         /\ wire' = eb_write8_ops(outcome)
         /\ exchanges' = <<[op   |-> "write",
                            addr |-> LITEXCNC_ETH_CONFIG_DATA_BASE_ADDRESS,
                            len  |-> write_config_length(config_size),
                            sent |-> outcome = "ok"]>>
    /\ ret' = 0
    /\ pc' = "done"
    /\ UNCHANGED <<mainVars, configVars, hostLE, log, resetVars, verifyVars, boardVars>>

\* payload sizes the caller may pass: the config region's size and larger ones
ConfigSizes == {4, 8, 12, 240, 244, 248}

\* litexcnc_eth_write_config called once with a payload that is at least as
\* long as the config region
InitConfig ==
    /\ hostLE \in BOOLEAN
    /\ pc = "write_config"
    /\ wire = <<>>
    /\ exchanges = <<>>
    /\ ret = -1
    /\ log = ""
    /\ regionSize \in RegionSizes
    /\ config_size \in ConfigSizes
    /\ ~Lt32(U32(config_size), regionSize.cfg)
    /\ write_buffer_size = 0
    /\ read_buffer_size = 0
    /\ write_buffer = <<>>
    /\ read_request_buffer = <<>>
    /\ txRet = 0
    /\ rxCount = 0
    /\ lastCall = ""
    /\ cycles = 0
    /\ fpga_read_buffer = <<>>
    /\ IdleReset
    /\ IdleVerify
    /\ IdleMain

SpecConfig == InitConfig /\ [][litexcnc_eth_write_config]_vars

----------------------------------------------------------------------------
(* Bring-up and teardown: init_board, close_board, rtapi_app_main,         *)
(* rtapi_app_exit.  Slot k of boards / connection / netOps is boards[k-1]. *)

Slots == 1..MAX_ETH_BOARDS

\* shapes of a board's JSON file: usable, no "etherbone" object, no string
\* "ip_address" in it
ConfigKinds == {"ok", "no_etherbone", "no_ip_address"}

\* what hal_init may return: an error or a component id
HalInitResults == {-1, 1}

\* whether eb_connect returns a connection
EbConnectResults == {TRUE, FALSE}

\* what litexcnc_register may return: 0, or a status that is not 0
RegisterResults == {0, -1, 1}

\* transport operations litexcnc_register performs on the board it is given
register_ops == <<"send", "recv">>

\* variant: the two JSON checks are skipped
config_usable_unchecked(kind) == TRUE

\* cJSON_IsObject(etherbone) and cJSON_IsString(ip_address), both passed
config_usable(kind) == kind = "ok"

\* the connection field after eb_disconnect(&board->connection)
eb_disconnect(c) == IF c = "open" THEN "closed" ELSE c

\* init_board on a freshly allocated board: the status it returns, the
\* connection field it leaves and the transport operations it performed
init_board(kind, connected, registered) ==
    IF ~config_usable(kind)
    THEN [ret |-> -1, connection |-> "unset", ops |-> <<>>]
    ELSE IF ~connected
    THEN [ret |-> -1, connection |-> eb_disconnect("NULL"), ops |-> <<"connect", "disconnect">>]
    ELSE IF registered # 0
    THEN [ret |-> registered, connection |-> "open", ops |-> <<"connect">> \o register_ops]
    ELSE [ret |-> 0, connection |-> "open", ops |-> <<"connect">> \o register_ops]

\* "ret = hal_init(...); if (ret < 0) goto error; comp_id = ret;"
main_hal_init ==
    /\ pc = "main"
    /\ \E r \in HalInitResults :
         IF r < 0
         THEN /\ ret' = r
              /\ pc' = "error"
              /\ UNCHANGED hal
         ELSE /\ ret' = 0
              /\ hal' = "init"
              /\ pc' = "board_loop"
    /\ i' = 0
    /\ UNCHANGED <<config_file, boards, connection, netOps, statuses, close_calls,
                   configVars, exchanges, hostLE, wire, log, reset_flag, reset_status, buffer,
                   devK, devReads, devConfirmed, rxFailed, attempts, verifyVars, boardVars>>

\* "ret == 0 && i<MAX_ETH_BOARDS && config_file[i] && *config_file[i]"
board_loop_continues ==
    ret = 0 /\ i < MAX_ETH_BOARDS /\ i < Len(config_file)

\* "if(ret < 0) goto error;"
is_error(r) == r < 0

\* one pass of the loop: hal_malloc, init_board, the error check, i++
main_board_loop ==
    /\ pc = "board_loop"
    /\ board_loop_continues
    /\ \E connected \in EbConnectResults, registered \in RegisterResults :
         LET b == init_board(config_file[i + 1], connected, registered)
         IN  /\ boards' = [boards EXCEPT ![i + 1] = "allocated"]
             /\ connection' = [connection EXCEPT ![i + 1] = b.connection]
             /\ netOps' = [netOps EXCEPT ![i + 1] = b.ops]
             /\ statuses' = Append(statuses, b.ret)
             /\ ret' = b.ret
             /\ IF is_error(b.ret)
                THEN pc' = "error" /\ i' = 0
                ELSE pc' = "board_loop" /\ i' = i + 1
    /\ UNCHANGED <<config_file, hal, close_calls,
                   configVars, exchanges, hostLE, wire, log, reset_flag, reset_status, buffer,
                   devK, devReads, devConfirmed, rxFailed, attempts, verifyVars, boardVars>>

\* "hal_ready(comp_id); return 0;"
main_hal_ready ==
    /\ pc = "board_loop"
    /\ ~board_loop_continues
    /\ hal' = "ready"
    /\ ret' = 0
    /\ pc' = "loaded"
    /\ UNCHANGED <<config_file, boards, connection, netOps, statuses, close_calls,
                   configVars, exchanges, hostLE, wire, log, resetVars, verifyVars, boardVars>>

\* "i<MAX_ETH_BOARDS && config_file[i] && config_file[i][0]"
close_loop_continues == i < MAX_ETH_BOARDS /\ i < Len(config_file)

\* what close_board(boards[i]) can do when boards[i] is NULL or the board's
\* connection field was never assigned: the load of the pointer is undefined
UndefinedOutcomes == {"crash", "no effect"}

\* one pass of a close loop: close_board(boards[i]), i++
close_board(here) ==
    /\ pc = here
    /\ close_loop_continues
    /\ close_calls' = Append(close_calls, [slot       |-> i + 1,
                                           board      |-> boards[i + 1],
                                           connection |-> connection[i + 1]])
    /\ IF boards[i + 1] = "NULL" \/ connection[i + 1] = "unset"
       THEN /\ \E outcome \in UndefinedOutcomes :
                 IF outcome = "crash"
                 THEN pc' = "crashed" /\ UNCHANGED i
                 ELSE pc' = here /\ i' = i + 1
            /\ UNCHANGED <<connection, netOps>>
       ELSE /\ connection' = [connection EXCEPT ![i + 1] = eb_disconnect(@)]
            /\ netOps' = [netOps EXCEPT ![i + 1] = Append(@, "disconnect")]
            /\ pc' = here
            /\ i' = i + 1
    /\ UNCHANGED <<config_file, hal, boards, statuses, ret,
                   configVars, exchanges, hostLE, wire, log, reset_flag, reset_status, buffer,
                   devK, devReads, devConfirmed, rxFailed, attempts, verifyVars, boardVars>>

\* the end of a close loop: dict_free, hal_exit, return
close_return(here, there) ==
    /\ pc = here
    /\ ~close_loop_continues
    /\ hal' = "exited"
    /\ pc' = there
    /\ UNCHANGED <<config_file, boards, connection, netOps, statuses, close_calls,
                   configVars, exchanges, hostLE, wire, ret, log, resetVars, verifyVars,
                   boardVars>>

main_error_close == close_board("error")

\* "hal_exit(comp_id); return ret;"
main_error_return == close_return("error", "failed")

rtapi_app_main ==
    \/ main_hal_init
    \/ main_board_loop
    \/ main_hal_ready
    \/ main_error_close
    \/ main_error_return

\* the module is unloaded: rtapi_app_exit starts its loop at i = 0
exit_enter ==
    /\ pc = "loaded"
    /\ i' = 0
    /\ pc' = "exit"
    /\ UNCHANGED <<mainVars, configVars, exchanges, hostLE, wire, ret, log,
                   reset_flag, reset_status, buffer, devK, devReads, devConfirmed,
                   rxFailed, attempts, verifyVars, boardVars>>

exit_close == close_board("exit")

exit_return == close_return("exit", "unloaded")

rtapi_app_exit ==
    \/ exit_enter
    \/ exit_close
    \/ exit_return

\* the module is loaded with 0 to MAX_ETH_BOARDS config files, each of any shape
InitMain ==
    /\ hostLE = TRUE
    /\ pc = "main"
    /\ wire = <<>>
    /\ exchanges = <<>>
    /\ ret = 0
    /\ log = ""
    /\ \E n \in 0..MAX_ETH_BOARDS : config_file \in [1..n -> ConfigKinds]
    /\ hal = "none"
    /\ boards = [k \in Slots |-> "NULL"]
    /\ connection = [k \in Slots |-> "unset"]
    /\ netOps = [k \in Slots |-> <<>>]
    /\ statuses = <<>>
    /\ close_calls = <<>>
    /\ IdleReset
    /\ IdleVerify
    /\ IdleBoard
    /\ IdleConfig

NextMain ==
    \/ rtapi_app_main
    \/ rtapi_app_exit

SpecMain == InitMain /\ [][NextMain]_vars

----------------------------------------------------------------------------
(* Claims about litexcnc_eth_reset, checked under SpecReset *)

\* the call has left the set loop with the read-back equal to the flag
SetPhasePassed == pc = "done" /\ log # set_phase_message

\* C1: against a device that mismatches the first k read-backs of a phase and
\* matches from then on (every read-back being answered), the set phase
\* succeeds iff k < MAX_RESET_RETRIES and the call fails otherwise; once the
\* set phase has succeeded the clear phase succeeds iff its own k is below
\* MAX_RESET_RETRIES, whatever number of attempts the set phase used.
C1_RetryBudgetPerPhase ==
    pc = "done" =>
        /\ ("set" \notin rxFailed =>
               (SetPhasePassed <=> devK[1] < MAX_RESET_RETRIES))
        /\ (~SetPhasePassed => ret # 0)
        /\ (SetPhasePassed /\ "clear" \notin rxFailed =>
               ((ret = 0) <=> devK[2] < MAX_RESET_RETRIES))

\* C1 witness: both phases needed the last attempt the budget allows
C1_Witness ==
    /\ pc = "done"
    /\ rxFailed = {}
    /\ devK = <<MAX_RESET_RETRIES - 1, MAX_RESET_RETRIES - 1>>
    /\ attempts = <<MAX_RESET_RETRIES, MAX_RESET_RETRIES>>
    /\ ret = 0

\* C2: the call returns 0 only if the device itself returned the flag in a
\* read-back of the set phase and, afterwards, in a read-back of the clear
\* phase; a failed exchange is never taken as confirmation.
C2_SuccessOnlyOnDeviceConfirmation ==
    pc = "done" /\ ret = 0 => devConfirmed = {"set", "clear"}

----------------------------------------------------------------------------
(* Claims about litexcnc_eth_verify_config, checked under SpecVerify *)

\* C4: the call succeeds iff the read of the init region succeeded and its
\* first big-endian word is 0x18052022, whatever the other bytes are; and when
\* it succeeds, version and fingerprint are the big-endian decodings of the
\* second and third words the device returned.
C4_VerifyMagicAndCapture ==
    pc = "done" =>
        /\ (ret = 0 <=> (rxFailed = {} /\ DecodeBE(devHeader, 0) = MAGIC))
        /\ (ret = 0 => /\ version = DecodeBE(devHeader, 4)
                       /\ fingerprint = DecodeBE(devHeader, 8))

\* C4 witness: magic 0x18052022, version 2, fingerprint 0xABCD1234 captured
C4_Witness ==
    /\ pc = "done"
    /\ ret = 0
    /\ devHeader = <<24, 5, 32, 34, 0, 0, 0, 2, 171, 205, 18, 52>>
    /\ version = <<0, 0, 0, 2>>
    /\ fingerprint = <<171, 205, 18, 52>>

----------------------------------------------------------------------------
(* Claim about the flush-before-send rule, checked under SpecReset *)

\* C5: every send on the board's connection is immediately preceded by a wait
\* for the transport's outbound queue to drain, in every exchange of every
\* driver function.
C5_FlushBeforeEverySend ==
    \A k \in 1..Len(wire) : wire[k] = "send" => (k > 1 /\ wire[k - 1] = "wait")

----------------------------------------------------------------------------
(* Claims about the cyclic functions and the buffers, checked under SpecBoard *)

\* the last call was litexcnc_eth_read and it got as far as eb_recv
ReadReceived == lastCall = "read" /\ wire = <<"wait", "send", "recv">>

\* C6: litexcnc_eth_read fails whenever the number of bytes received differs
\* from read_buffer_size (shorter, longer, zero or a negative error), and
\* succeeds only when the send succeeded and exactly read_buffer_size bytes
\* were received.
C6_ReadLengthMismatchFails ==
    lastCall = "read" =>
        /\ read_buffer_size > 0
        /\ (ReadReceived /\ rxCount # read_buffer_size => ret = -1)
        /\ (ret = 0 <=> (txRet >= 0 /\ ReadReceived /\ rxCount = read_buffer_size))

\* C6 witness: a response one byte longer than expected was refused
C6_Witness ==
    /\ ReadReceived
    /\ rxCount = read_buffer_size + 1
    /\ ret = -1

\* the five base addresses are strictly increasing as unsigned 32-bit values
LayoutIncreasing ==
    /\ Lt32(LITEXCNC_ETH_INIT_DATA_BASE_ADDRESS, LITEXCNC_ETH_RESET_DATA_BASE_ADDRESS)
    /\ Lt32(LITEXCNC_ETH_RESET_DATA_BASE_ADDRESS, LITEXCNC_ETH_CONFIG_DATA_BASE_ADDRESS)
    /\ Lt32(LITEXCNC_ETH_CONFIG_DATA_BASE_ADDRESS, LITEXCNC_ETH_WRITE_DATA_BASE_ADDRESS)
    /\ Lt32(LITEXCNC_ETH_WRITE_DATA_BASE_ADDRESS, LITEXCNC_ETH_READ_DATA_BASE_ADDRESS)

\* base + size does not reach beyond next
EndsBefore(base, size, next) == ~Carry32(base, size) /\ ~Lt32(next, Add32(base, size))

\* no region overlaps the next one (the write region being the write payload)
LayoutDisjoint ==
    /\ EndsBefore(LITEXCNC_ETH_INIT_DATA_BASE_ADDRESS, regionSize.hdr,
                  LITEXCNC_ETH_RESET_DATA_BASE_ADDRESS)
    /\ EndsBefore(LITEXCNC_ETH_RESET_DATA_BASE_ADDRESS, regionSize.rst,
                  LITEXCNC_ETH_CONFIG_DATA_BASE_ADDRESS)
    /\ EndsBefore(LITEXCNC_ETH_CONFIG_DATA_BASE_ADDRESS, regionSize.cfg,
                  LITEXCNC_ETH_WRITE_DATA_BASE_ADDRESS)
    /\ EndsBefore(LITEXCNC_ETH_WRITE_DATA_BASE_ADDRESS,
                  U32(write_buffer_size - WRITE_HEADER_SIZE),
                  LITEXCNC_ETH_READ_DATA_BASE_ADDRESS)

\* every region size is greater than 0
SizesPositive ==
    /\ regionSize.hdr # U32(0)
    /\ regionSize.rst # U32(0)
    /\ regionSize.cfg # U32(0)
    /\ write_buffer_size > 0
    /\ WRITE_HEADER_SIZE > 0

\* the sum of the region sizes fits in 32 bits
LayoutFits ==
    /\ ~Carry32(LITEXCNC_ETH_INIT_DATA_BASE_ADDRESS, regionSize.hdr)
    /\ ~Carry32(LITEXCNC_ETH_RESET_DATA_BASE_ADDRESS, regionSize.rst)
    /\ ~Carry32(LITEXCNC_ETH_CONFIG_DATA_BASE_ADDRESS, regionSize.cfg)
    /\ ~Carry32(LITEXCNC_ETH_WRITE_DATA_BASE_ADDRESS,
                U32(write_buffer_size - WRITE_HEADER_SIZE))

\* C7 as claimed: for all region sizes greater than 0 the five base addresses
\* satisfy init < reset < config < write < read and no region overlaps the next.
C7_LayoutIncreasingForPositiveSizes ==
    SizesPositive => LayoutIncreasing /\ LayoutDisjoint

\* C7 as amended: the same, for region sizes greater than 0 whose write buffer
\* is larger than its header and whose sum fits in 32 bits.
C7_LayoutIncreasingWithPayload ==
    SizesPositive /\ write_buffer_size > WRITE_HEADER_SIZE /\ LayoutFits
        => LayoutIncreasing /\ LayoutDisjoint

\* C7 witness: the firmware's sizes and a 12-byte write payload give the bases
\* 0, 12, 16, 20, 32, used by a board that has been initialised
C7_Witness ==
    /\ pc = "ready"
    /\ regionSize = DefaultRegionSize
    /\ write_buffer_size = 28
    /\ LITEXCNC_ETH_RESET_DATA_BASE_ADDRESS = <<0, 0, 0, 12>>
    /\ LITEXCNC_ETH_CONFIG_DATA_BASE_ADDRESS = <<0, 0, 0, 16>>
    /\ LITEXCNC_ETH_WRITE_DATA_BASE_ADDRESS = <<0, 0, 0, 20>>
    /\ LITEXCNC_ETH_READ_DATA_BASE_ADDRESS = <<0, 0, 0, 32>>

\* the payload length of the write buffer
WritePayloadLen == write_buffer_size - ETHERBONE_HEADER_SIZE

\* C8 as claimed: for every write buffer whose payload length is a multiple of
\* 4, header byte 10 is payload length / 4 and header bytes 12-15 decode
\* big-endian to the write base address.
C8_WriteHeaderRoundTrip ==
    pc = "ready" /\ WritePayloadLen % 4 = 0 =>
        /\ write_buffer[11] = WritePayloadLen \div 4
        /\ DecodeBE(write_buffer, 12) = LITEXCNC_ETH_WRITE_DATA_BASE_ADDRESS

\* C8 as amended: header byte 10 is the low byte of payload length / 4, so it
\* is payload length / 4 for payloads of at most 255 words; bytes 12-15 decode
\* big-endian to the write base address.
C8_WriteHeaderLowByte ==
    pc = "ready" /\ WritePayloadLen % 4 = 0 =>
        /\ write_buffer[11] = (WritePayloadLen \div 4) % 256
        /\ (WritePayloadLen \div 4 <= 255 => write_buffer[11] = WritePayloadLen \div 4)
        /\ DecodeBE(write_buffer, 12) = LITEXCNC_ETH_WRITE_DATA_BASE_ADDRESS

\* C8 witness: base address 0x00000100 and 3 payload words
C8_Witness ==
    /\ pc = "ready"
    /\ LITEXCNC_ETH_WRITE_DATA_BASE_ADDRESS = <<0, 0, 1, 0>>
    /\ WritePayloadLen = 12
    /\ Bytes4(write_buffer, 12) = <<0, 0, 1, 0>>
    /\ write_buffer[11] = 3

\* C9: building the write frame is rejected, and no frame is produced or sent,
\* whenever the payload length is not a multiple of 4.
C9_UnalignedPayloadRejected ==
    WritePayloadLen % 4 # 0 => pc # "ready" /\ lastCall # "write"

\* the number of payload words of the read buffer
ReadWords == (read_buffer_size - ETHERBONE_HEADER_SIZE) \div 4

\* the payload of the read request is the big-endian encoding of the addresses
\* read_base + 4*n, n = 0..ReadWords-1, in that order
ReadPayloadIsAddresses ==
    /\ Len(read_request_buffer) = read_buffer_size
    /\ \A n \in 0..(ReadWords - 1) :
         DecodeBE(read_request_buffer, ETHERBONE_HEADER_SIZE + 4 * n)
             = Add32(Sub32(Add32(LITEXCNC_ETH_WRITE_DATA_BASE_ADDRESS, U32(write_buffer_size)),
                           U32(WRITE_HEADER_SIZE)),
                     U32(4 * n))

\* C10 as claimed: the read request carries N in header byte 11 and a payload
\* of N big-endian words, the n-th being read_base + 4*n.
C10_ReadRequestCarriesN ==
    pc = "ready" => read_request_buffer[12] = ReadWords /\ ReadPayloadIsAddresses

\* C10 as amended: header byte 11 carries the low byte of N, so N itself for
\* N <= 255; the payload is as claimed.
C10_ReadRequestLowByte ==
    pc = "ready" =>
        /\ read_request_buffer[12] = ReadWords % 256
        /\ (ReadWords <= 255 => read_request_buffer[12] = ReadWords)
        /\ ReadPayloadIsAddresses

\* C10 witness: two words requested at read base 32: addresses 32 and 36
C10_Witness ==
    /\ pc = "ready"
    /\ regionSize = DefaultRegionSize
    /\ write_buffer_size = 28
    /\ read_buffer_size = 24
    /\ read_request_buffer[12] = 2
    /\ Bytes4(read_request_buffer, 16) = <<0, 0, 0, 32>>
    /\ Bytes4(read_request_buffer, 20) = <<0, 0, 0, 36>>

----------------------------------------------------------------------------
(* C13 *)

\* the fake device answers every read-back and needs fewer retries than the budget
DeviceWithinBudget ==
    /\ rxFailed = {}
    /\ devK[1] < MAX_RESET_RETRIES
    /\ devK[2] < MAX_RESET_RETRIES

\* C13, as stated: against a device that needs k retries in each phase the reset
\* succeeds and reports the retry counts k and k
C13_ReportsRetryCounts ==
    (pc = "done" /\ DeviceWithinBudget) =>
        (ret = 0 /\ reset_reported_counts = <<devK[1], devK[2]>>)

\* C13, amended: against a device that needs k retries in each phase the reset
\* returns 0 after k + 1 write/read-back cycles in each phase, that is k retries
\* of each; the counts themselves are not reported
C13_SucceedsAfterKRetries ==
    (pc = "done" /\ DeviceWithinBudget) =>
        /\ ret = 0
        /\ log = ""
        /\ attempts = <<devK[1] + 1, devK[2] + 1>>
        /\ reset_reported_counts = <<>>

C13_Witness ==
    /\ pc = "done"
    /\ DeviceWithinBudget
    /\ devK = <<2, 2>>
    /\ ret = 0
    /\ attempts = <<3, 3>>

----------------------------------------------------------------------------
(* C14 *)

SetPhaseFailed == pc = "done" /\ log = set_phase_message

\* C14: the reset always returns; it makes at most MAX_RESET_RETRIES cycles in
\* each phase; after a failed set phase the clear phase was never entered; and
\* once the function has returned nothing more is written, read or changed
C14_ResetTerminatesWithinBudget ==
    /\ <>(pc = "done")
    /\ [](/\ attempts[1] <= MAX_RESET_RETRIES
          /\ attempts[2] <= MAX_RESET_RETRIES
          /\ Len(exchanges) <= 4 * MAX_RESET_RETRIES)
    /\ [](SetPhaseFailed => (attempts[2] = 0 /\ ret # 0))
    /\ [][pc = "done" => (pc' = "done" /\ wire' = wire /\ exchanges' = exchanges)]_vars

C14_Witness ==
    /\ SetPhaseFailed
    /\ attempts = <<MAX_RESET_RETRIES, 0>>
    /\ Len(exchanges) = 2 * MAX_RESET_RETRIES

----------------------------------------------------------------------------
(* C15 *)

\* the bytes of the two flags as they are written: big-endian
WrittenOne == <<0, 0, 0, 1>>
WrittenZero == <<0, 0, 0, 0>>

IsWrite(e, bytes) == e.op = "write" /\ e.data = bytes

\* TRUE iff no 0 was written before exchange k: exchange k is in the set phase
InSetPhase(k) == \A j \in 1..(k - 1) : ~IsWrite(exchanges[j], WrittenZero)

----------------------------------------------------------------------------
(* C16 *)

\* how often a transport operation occurs in the current call
Count(op) == Cardinality({k \in 1..Len(wire) : wire[k] = op})

\* C16: a litexcnc_eth_read makes one send and at most one receive, and no
\* receive after a failed send; a litexcnc_eth_write makes one send and no
\* receive; a failed send is answered with -1, not with a second send
C16_NoInternalRetry ==
    /\ lastCall = "read" =>
         /\ Count("send") = 1
         /\ Count("recv") <= 1
         /\ txRet < 0 => (Count("recv") = 0 /\ ret = -1)
         /\ (Count("recv") = 1 /\ count_differs(rxCount, read_buffer_size)) => ret = -1
    /\ lastCall = "write" =>
         /\ Count("send") = 1
         /\ Count("recv") = 0
         /\ txRet < 0 => ret = -1

C16_Witness ==
    /\ lastCall = "read"
    /\ txRet < 0
    /\ ret = -1
    /\ Count("send") = 1
    /\ cycles > 1

----------------------------------------------------------------------------
(* C17 *)

Header(buf) == SubSeq(buf, 1, WRITE_HEADER_SIZE)

\* C17: once init_board has built them, no step changes the read-request
\* buffer or the 16-byte header of the write buffer, and a cyclic call (a step
\* that counts as a cycle) changes nothing of the write buffer at all
C17_BuffersFrozenByCyclicCalls ==
    [][pc = "ready" =>
         /\ read_request_buffer' = read_request_buffer
         /\ Header(write_buffer') = Header(write_buffer)
         /\ cycles' # cycles => write_buffer' = write_buffer]_vars

C17_Witness ==
    /\ pc = "ready"
    /\ cycles = MaxCycles
    /\ lastCall = "read"
    /\ rxCount = read_buffer_size
    /\ fpga_read_buffer[1] = 85
    /\ Len(write_buffer) > WRITE_HEADER_SIZE
    /\ write_buffer[WRITE_HEADER_SIZE + 1] = 7
    /\ \E g \in {0, 170} : read_request_buffer = build_read_request_buffer(g)

----------------------------------------------------------------------------
(* C18 *)

\* C18: a write_config is exactly one write exchange, to the config base,
\* of all size bytes of the caller's payload, with no read-back, and its status
\* is 0 if the write was sent and negative if it was not
C18_FullPayloadAndStatus ==
    pc = "done" =>
        /\ Len(exchanges) = 1
        /\ exchanges[1].op = "write"
        /\ exchanges[1].addr = LITEXCNC_ETH_CONFIG_DATA_BASE_ADDRESS
        /\ Count("recv") = 0
        /\ exchanges[1].len = U32(config_size)
        /\ ret <= 0
        /\ ret = 0 <=> exchanges[1].sent

----------------------------------------------------------------------------
(* Claims about bring-up and teardown, checked under SpecMain *)

\* rtapi_app_main or rtapi_app_exit has returned
Returned == pc \in {"loaded", "failed", "unloaded"}

\* the bring-up of some board has failed: init_board returned a status other
\* than 0, for a bad configuration, a failed connect or a failed registration
BringUpFailed == \E k \in 1..Len(statuses) : statuses[k] # 0

NoConnectionOpen == \A k \in Slots : connection[k] # "open"

\* C11: when the bring-up of a board has failed, every connection that was
\* acquired has been disconnected by the time rtapi_app_main has returned
C11_FailedBringUpLeavesNoConnection ==
    (pc \in {"loaded", "failed"} /\ BringUpFailed) => NoConnectionOpen

\* the part of C11 that holds: when rtapi_app_main has taken its error path to
\* the end, or has crashed on it, no connection is open
ErrorPathLeavesNoConnection ==
    pc \in {"failed", "crashed"} => NoConnectionOpen

\* the transport operations C12 names
TransportOps == {"connect", "send", "recv"}

\* C12: for a board whose configuration lacks the etherbone object or the
\* ip_address string, init_board returns -1, no later board is initialised and
\* nothing was connected, sent or received on that board
C12_BadConfigFailsBeforeTransport ==
    \A k \in 1..Len(statuses) :
        config_file[k] # "ok" =>
            /\ statuses[k] = -1
            /\ Len(statuses) = k
            /\ connection[k] = "unset"
            /\ \A n \in 1..Len(netOps[k]) : netOps[k][n] \notin TransportOps

C12_Witness ==
    /\ pc = "error"
    /\ i = 0
    /\ Len(statuses) = 2
    /\ config_file[2] = "no_ip_address"
    /\ statuses = <<0, -1>>
    /\ netOps[1] = <<"connect">> \o register_ops
    /\ netOps[2] = <<>>

\* C19: hal_ready is called and 0 returned only if hal_init succeeded and
\* init_board returned 0 for every configured board; after a status that is
\* not 0 no later board is initialised, hal_ready is not called and the status
\* returned is not 0
C19_ReadyOnlyIfEveryBoardSucceeded ==
    /\ (hal = "ready" \/ pc = "loaded") =>
         /\ Len(statuses) = Len(config_file)
         /\ \A k \in 1..Len(statuses) : statuses[k] = 0
    /\ BringUpFailed =>
         /\ statuses[Len(statuses)] # 0
         /\ \A k \in 1..(Len(statuses) - 1) : statuses[k] = 0
         /\ hal # "ready"
         /\ pc \in {"loaded", "failed"} => ret # 0

\* C20: every close_board call of a teardown is made on a slot that holds an
\* allocated board whose connection field init_board has assigned
C20_CloseOnlyInitialisedBoards ==
    \A n \in 1..Len(close_calls) :
        /\ close_calls[n].board = "allocated"
        /\ close_calls[n].connection # "unset"

====
